---------------------------- MODULE Spec2Model ----------------------------
(***************************************************************************)
(* Battery monitor firmware (src/src/main.cpp): the sampling registry, the *)
(* status LEDs, the CSV log on the SD card and its replay, the HTTP        *)
(* responder, the time formatters and the cooperative loop that drives     *)
(* them.                                                                   *)
(*                                                                         *)
(* Numbers.  unsigned long is 32 bits wide; a value is held as the pair    *)
(* <<hi, lo>> of its 16-bit halves so that subtraction wraps modulo 2^32.  *)
(* A float voltage is held in units of 10 microvolts, rounded down: for    *)
(* every raw sample 0..1023 this gives the same (long) cast, the same      *)
(* print(.., 2) and the same print(.., 3) text as binary32 arithmetic.     *)
(* Text (requests, responses, file contents) is held as strings and is     *)
(* searched and cut character by character.                                *)
(***************************************************************************)
EXTENDS Integers, Sequences, FiniteSets, TLC

VARIABLES
  pc,                   \* position of the single thread of control
  batteries,            \* Battery batteries[NUM_BATTERIES]
  lastLogTime,          \* unsigned long
  lastDisplayUpdate,    \* unsigned long
  currentDisplayBattery,
  ledState,             \* bool
  lastLedUpdate,        \* unsigned long
  redLed, greenLed,     \* levels last written to RED_LED and GREEN_LED
  lcd,                  \* the two rows last printed by updateDisplay
  millis,               \* the millisecond counter, unsigned long
  currentTime,          \* loop()'s local: millis() at the top of the pass
  sdOk,                 \* whether SD.begin succeeds now (card present)
  csv,                  \* battery.csv on the card: [exists, text]
  timeSet,              \* timeClient.isTimeSet()
  epoch,                \* timeClient.getEpochTime()
  conn,                 \* the accepted client: [open, connected, pending]
  request,              \* handleWebRequests' local String request
  response,             \* what the last served client was sent
  bytesWritten,         \* logBatteryData's local: bytes its last call wrote
  lastHistory,          \* the client side: the history last received, with
                        \* the card and the file it was read from
  passes                \* passes of loop() completed (bounds the model)

vars == <<pc, batteries, lastLogTime, lastDisplayUpdate, currentDisplayBattery,
          ledState, lastLedUpdate, redLed, greenLed, lcd, millis, currentTime,
          sdOk, csv, timeSet, epoch, conn, request, response, bytesWritten,
          lastHistory, passes>>

-----------------------------------------------------------------------------
(* Program constants *)

NUM_BATTERIES == 10
LOG_INTERVAL == 60000
DISPLAY_UPDATE == 2000
LED_INTERVAL == 500
TIMEZONE_OFFSET == -14400
ADC_MAX == 1023
LOOP_DELAY == 100
NTP_RETRIES == 10

Channels == 0 .. (NUM_BATTERIES - 1)

-----------------------------------------------------------------------------
(* unsigned long arithmetic on <<hi, lo>> *)

W16 == 65536

U32(n) == <<n \div W16, n % W16>>

Add32(a, n) ==
  LET lo == a[2] + (n % W16)
      hi == a[1] + (n \div W16) + (lo \div W16)
  IN  <<hi % W16, lo % W16>>

\* a - b in a wider signed type, a negative difference taken as 0
Sub32NoWrap(a, b) ==
  IF a[1] < b[1] \/ (a[1] = b[1] /\ a[2] < b[2]) THEN <<0, 0>>
  ELSE LET lo == a[2] - b[2]
           borrow == IF lo < 0 THEN 1 ELSE 0
       IN  <<a[1] - b[1] - borrow, lo % W16>>

Sub32(a, b) ==
  LET lo == a[2] - b[2]
      borrow == IF lo < 0 THEN 1 ELSE 0
      hi == a[1] - b[1] - borrow
  IN  <<hi % W16, lo % W16>>

\* a > n, the comparison with its equality dropped
GT32(a, n) ==
  \/ a[1] > n \div W16
  \/ a[1] = n \div W16 /\ a[2] > n % W16

\* a >= n for an unsigned long a and a constant n < 2^31
GE32(a, n) ==
  \/ a[1] > n \div W16
  \/ a[1] = n \div W16 /\ a[2] >= n % W16

-----------------------------------------------------------------------------
(* String primitives of the Arduino String class *)

CharAt(s, i) == SubSeq(s, i, i)

\* String::indexOf(pat, from): 0-based index of the first occurrence at or
\* after from, -1 when there is none.
Occurrences(s, pat, from) ==
  {i \in from .. (Len(s) - Len(pat)) : SubSeq(s, i + 1, i + Len(pat)) = pat}

IndexFrom(s, pat, from) ==
  IF Occurrences(s, pat, from) = {} THEN -1
  ELSE CHOOSE i \in Occurrences(s, pat, from) :
         \A j \in Occurrences(s, pat, from) : i <= j

indexOf(s, pat) == IndexFrom(s, pat, 0)

\* String::substring(left, right) with unsigned arguments: -1 becomes the
\* largest unsigned value, the ends are swapped when left > right, and right
\* is cut to the length.
Unsigned(i) == IF i < 0 THEN i + W16 ELSE i

substring(s, left, right) ==
  LET l0 == Unsigned(left)
      r0 == Unsigned(right)
      l  == IF l0 > r0 THEN r0 ELSE l0
      r1 == IF l0 > r0 THEN l0 ELSE r0
      r  == IF r1 > Len(s) THEN Len(s) ELSE r1
  IN  IF l >= Len(s) THEN "" ELSE SubSeq(s, l + 1, r)

\* String::substring(left): to the end of the string
substringFrom(s, left) == substring(s, left, Len(s))

endsWith(s, suffix) ==
  /\ Len(s) >= Len(suffix)
  /\ SubSeq(s, Len(s) - Len(suffix) + 1, Len(s)) = suffix

IsSpace(c) == c \in {" ", "\t", "\n", "\r"}

RECURSIVE TrimLeft(_)
TrimLeft(s) ==
  IF Len(s) > 0 /\ IsSpace(CharAt(s, 1)) THEN TrimLeft(Tail(s)) ELSE s

RECURSIVE TrimRight(_)
TrimRight(s) ==
  IF Len(s) > 0 /\ IsSpace(CharAt(s, Len(s)))
  THEN TrimRight(SubSeq(s, 1, Len(s) - 1)) ELSE s

\* String::trim()
trim(s) == TrimRight(TrimLeft(s))

-----------------------------------------------------------------------------
(* Print: decimal text of integers and of floats *)

Digit(d) == CharAt("0123456789", d + 1)

\* Print::print(long) for n >= 0
RECURSIVE printInt(_)
printInt(n) ==
  IF n < 10 THEN Digit(n) ELSE printInt(n \div 10) \o Digit(n % 10)

\* sprintf("%0<w>d", n) for n >= 0
RECURSIVE ZeroFill(_, _)
ZeroFill(s, w) == IF Len(s) >= w THEN s ELSE ZeroFill("0" \o s, w)

Pad(n, w) == ZeroFill(printInt(n), w)

\* One unit of a float in the model: 1/V_SCALE.
V_SCALE == 100000

RECURSIVE Pow10(_)
Pow10(k) == IF k = 0 THEN 1 ELSE 10 * Pow10(k - 1)

\* Print::printFloat(number, digits) for number >= 0, number = x / V_SCALE:
\* add half a unit of the last digit, print the integer part, a point, and
\* then the digits one by one, truncating.
printFloat(x, digits) ==
  LET rounding == (V_SCALE \div Pow10(digits)) \div 2
      n == x + rounding
      int_part == n \div V_SCALE
      remainder == n % V_SCALE
  IN  printInt(int_part) \o "." \o
      ZeroFill(printInt(remainder \div (V_SCALE \div Pow10(digits))), digits)

-----------------------------------------------------------------------------
(* Unit conversion of readBatteries *)

\* BATTERY_VOLTAGE_MAX = 12.0, in units of 1/V_SCALE volts
BATTERY_VOLTAGE_MAX == 1200000

\* C division of longs truncates toward zero.
CDiv(a, b) == IF a >= 0 THEN a \div b ELSE -((-a) \div b)

\* long map(long x, long in_min, long in_max, long out_min, long out_max)
map(x, in_min, in_max, out_min, out_max) ==
  CDiv((x - in_min) * (out_max - out_min), in_max - in_min) + out_min

constrain(amt, low, high) ==
  IF amt < low THEN low ELSE IF amt > high THEN high ELSE amt

\* (long)(f * 100) for a float f >= 0 held in units of 1/V_SCALE
Times100(f) == (f * 100) \div V_SCALE

\* scaledVoltage * (BATTERY_VOLTAGE_MAX / ARDUINO_REF_VOLTAGE)
VoltageOf(raw) == (raw * BATTERY_VOLTAGE_MAX) \div ADC_MAX

minVoltage == (BATTERY_VOLTAGE_MAX * 83) \div 100
maxVoltage == (BATTERY_VOLTAGE_MAX * 105) \div 100

PercentageOfUnclamped(voltage) ==
  map(Times100(voltage), Times100(minVoltage), Times100(maxVoltage), 0, 100)

PercentageOf(voltage) ==
  constrain(map(Times100(voltage), Times100(minVoltage), Times100(maxVoltage),
                0, 100), 0, 100)

HealthyNotBelow(percentage) == percentage >= 20

HealthyOf(percentage) == percentage > 20

\* One channel after the body of readBatteries' loop
Sampled(raw, now) ==
  [rawValue   |-> raw,
   voltage    |-> VoltageOf(raw),
   percentage |-> PercentageOf(VoltageOf(raw)),
   isHealthy  |-> HealthyOf(PercentageOf(VoltageOf(raw))),
   lastUpdate |-> now]

-----------------------------------------------------------------------------
(* Time functions *)

\* LEAP_YEAR(Y) of TimeLib, Y counted from 1970
LEAP_YEAR(Y) ==
  /\ (1970 + Y) % 4 = 0
  /\ ((1970 + Y) % 100 # 0 \/ (1970 + Y) % 400 = 0)

YearDays(Y) == IF LEAP_YEAR(Y) THEN 366 ELSE 365

monthDays == <<31, 28, 31, 30, 31, 30, 31, 31, 30, 31, 30, 31>>

MonthLength(Y, m) == IF m = 1 /\ LEAP_YEAR(Y) THEN 29 ELSE monthDays[m + 1]

\* breakTime's year loop: <<year, days left in that year>>
RECURSIVE YearOf(_, _)
YearOf(year, days) ==
  IF days >= YearDays(year) THEN YearOf(year + 1, days - YearDays(year))
  ELSE <<year, days>>

\* breakTime's month loop: <<month (0-based), day (0-based)>>
RECURSIVE MonthOf(_, _, _)
MonthOf(year, month, days) ==
  IF month < 12 /\ days >= MonthLength(year, month)
  THEN MonthOf(year, month + 1, days - MonthLength(year, month))
  ELSE <<month, days>>

\* breakTime(time, tm)
breakTime(time) ==
  LET yd == YearOf(0, time \div 86400)
      md == MonthOf(yd[1], 0, yd[2])
  IN  [Second |-> time % 60,
       Minute |-> (time \div 60) % 60,
       Hour   |-> (time \div 3600) % 24,
       Year   |-> yd[1],
       Month  |-> md[1] + 1,
       Day    |-> md[2] + 1]

tmYearToCalendar(Y) == Y + 1970

NOT_SYNCED == "Time not synced"
CSV_EPOCH == "1970-01-01T00:00:00Z"

\* sprintf("%04d-%02d-%02d", ...) and sprintf("%02d:%02d:%02d", ...)
DateText(tm) ==
  Pad(tmYearToCalendar(tm.Year), 4) \o "-" \o Pad(tm.Month, 2) \o "-" \o
  Pad(tm.Day, 2)

ClockText(tm) ==
  Pad(tm.Hour, 2) \o ":" \o Pad(tm.Minute, 2) \o ":" \o Pad(tm.Second, 2)

getUTCTimestampOf(set, now) == IF set THEN now ELSE 0

getUTCTimeStringOf(set, now) ==
  IF ~set THEN NOT_SYNCED
  ELSE DateText(breakTime(now)) \o " " \o ClockText(breakTime(now)) \o " UTC"

getLocalTimeStringOf(set, now) ==
  IF ~set THEN NOT_SYNCED
  ELSE DateText(breakTime(now + TIMEZONE_OFFSET)) \o " " \o
       ClockText(breakTime(now + TIMEZONE_OFFSET))

\* The 12-hour conversion without its last branch
Hour12NoNoon(h) ==
  IF h = 0 THEN <<12, "AM">>
  ELSE IF h > 12 THEN <<h - 12, "PM">>
  ELSE <<h, "AM">>

\* The 12-hour conversion of getUSLocalTimeString: <<hour12, ampm>>
Hour12(h) ==
  IF h = 0 THEN <<12, "AM">>
  ELSE IF h > 12 THEN <<h - 12, "PM">>
  ELSE IF h = 12 THEN <<12, "PM">>
  ELSE <<h, "AM">>

getUSLocalTimeStringOf(set, now) ==
  IF ~set THEN NOT_SYNCED
  ELSE LET tm == breakTime(now + TIMEZONE_OFFSET)
           h  == Hour12(tm.Hour)
       IN  Pad(tm.Month, 2) \o "/" \o Pad(tm.Day, 2) \o "/" \o
           Pad(tmYearToCalendar(tm.Year), 4) \o " " \o printInt(h[1]) \o ":" \o
           Pad(tm.Minute, 2) \o ":" \o Pad(tm.Second, 2) \o " " \o h[2]

getDateTimeForCSVOfNoSentinel(set, now) ==
  IF ~set THEN NOT_SYNCED
  ELSE DateText(breakTime(now)) \o "T" \o ClockText(breakTime(now)) \o "Z"

getDateTimeForCSVOf(set, now) ==
  IF ~set THEN CSV_EPOCH
  ELSE DateText(breakTime(now)) \o "T" \o ClockText(breakTime(now)) \o "Z"

getUTCTimestamp == getUTCTimestampOf(timeSet, epoch)
getUTCTimeString == getUTCTimeStringOf(timeSet, epoch)
getLocalTimeString == getLocalTimeStringOf(timeSet, epoch)
getUSLocalTimeString == getUSLocalTimeStringOf(timeSet, epoch)
getDateTimeForCSV == getDateTimeForCSVOf(timeSet, epoch)

-----------------------------------------------------------------------------
(* battery.csv: the header, a data row, and the replay of sendHistoryData *)

CRLF == "\r\n"

\* setup(): the columns of channel i, a comma after all but the last
HeaderColumns(i) ==
  "Battery" \o printInt(i + 1) \o "_Raw,Battery" \o printInt(i + 1) \o
  "_Voltage,Battery" \o printInt(i + 1) \o "_Percentage" \o
  (IF i < NUM_BATTERIES - 1 THEN "," ELSE "")

RECURSIVE HeaderFrom(_)
HeaderFrom(i) ==
  IF i < NUM_BATTERIES THEN HeaderColumns(i) \o HeaderFrom(i + 1) ELSE ""

HeaderLine == "DateTime_UTC," \o HeaderFrom(0)

\* logBatteryData(): the three fields of channel i, a comma after all but
\* the last
RowFieldsTwoDecimals(b, i) ==
  printInt(b.rawValue) \o "," \o printFloat(b.voltage, 2) \o "," \o
  printFloat(b.percentage * V_SCALE, 1) \o
  (IF i < NUM_BATTERIES - 1 THEN "," ELSE "")

RowFields(b, i) ==
  printInt(b.rawValue) \o "," \o printFloat(b.voltage, 3) \o "," \o
  printFloat(b.percentage * V_SCALE, 1) \o
  (IF i < NUM_BATTERIES - 1 THEN "," ELSE "")

RECURSIVE RowFrom(_, _)
RowFrom(bats, i) ==
  IF i < NUM_BATTERIES THEN RowFields(bats[i], i) \o RowFrom(bats, i + 1)
  ELSE ""

RowLine(stamp, bats) == stamp \o "," \o RowFrom(bats, 0)

NoFile == [exists |-> FALSE, text |-> ""]

\* SD.open(name, FILE_WRITE) creates the file when it is absent and appends.
Appended(file, text) == [exists |-> TRUE, text |-> file.text \o text]

\* Stream::readStringUntil('\n') from 0-based position pos:
\* <<the line without its terminator, the position after it>>
ReadLine(text, pos) ==
  LET nl == IndexFrom(text, "\n", pos)
  IN  IF nl = -1 THEN <<SubSeq(text, pos + 1, Len(text)), Len(text)>>
      ELSE <<SubSeq(text, pos + 1, nl), nl + 1>>

\* The inner loop without its batteryIndex < NUM_BATTERIES condition
RECURSIVE ParseGroupsUncapped(_, _, _)
ParseGroupsUncapped(data, startIndex, batteryIndex) ==
  IF startIndex < Len(data)
  THEN LET c1 == IndexFrom(data, ",", startIndex)
           s1 == c1 + 1
           c2 == IndexFrom(data, ",", s1)
           s2 == c2 + 1
           c3 == IndexFrom(data, ",", s2)
           e3 == IF c3 = -1 THEN Len(data) ELSE c3
       IN  <<[raw        |-> substring(data, startIndex, c1),
              voltage    |-> substring(data, s1, c2),
              percentage |-> substring(data, s2, e3)]>>
           \o ParseGroupsUncapped(data, e3 + 1, batteryIndex + 1)
  ELSE <<>>

\* The inner loop of sendHistoryData: the groups read from data, in order
RECURSIVE ParseGroups(_, _, _)
ParseGroups(data, startIndex, batteryIndex) ==
  IF startIndex < Len(data) /\ batteryIndex < NUM_BATTERIES
  THEN LET c1 == IndexFrom(data, ",", startIndex)
           s1 == c1 + 1
           c2 == IndexFrom(data, ",", s1)
           s2 == c2 + 1
           c3 == IndexFrom(data, ",", s2)
           e3 == IF c3 = -1 THEN Len(data) ELSE c3
       IN  <<[raw        |-> substring(data, startIndex, c1),
              voltage    |-> substring(data, s1, c2),
              percentage |-> substring(data, s2, e3)]>>
           \o ParseGroups(data, e3 + 1, batteryIndex + 1)
  ELSE <<>>

\* One non-empty line of the file as sendHistoryData reads it
ParseLine(line) ==
  LET commaIndex == indexOf(line, ",")
  IN  [timestamp |-> substring(line, 0, commaIndex),
       data      |-> ParseGroups(substringFrom(line, commaIndex + 1), 0, 0)]

\* The while loop of sendHistoryData from position pos: the entries emitted
RECURSIVE ReplayFrom(_, _, _)
ReplayFrom(text, pos, firstLine) ==
  IF pos >= Len(text) THEN <<>>
  ELSE LET rl   == ReadLine(text, pos)
           line == trim(rl[1])
       IN  IF firstLine THEN ReplayFrom(text, rl[2], FALSE)
           ELSE IF Len(line) > 0
                THEN <<ParseLine(line)>> \o ReplayFrom(text, rl[2], FALSE)
                ELSE ReplayFrom(text, rl[2], FALSE)

\* The entries sendHistoryData emits; none when SD.open fails
Replay(card, file) ==
  IF card /\ file.exists THEN ReplayFrom(file.text, 0, TRUE) ELSE <<>>

-----------------------------------------------------------------------------
(* HTTP responses *)

GroupText(g) ==
  "{\"raw\":" \o g.raw \o ",\"voltage\":" \o g.voltage \o
  ",\"percentage\":" \o g.percentage \o "}"

RECURSIVE GroupsText(_, _)
GroupsText(groups, k) ==
  IF k > Len(groups) THEN ""
  ELSE (IF k > 1 THEN "," ELSE "") \o GroupText(groups[k]) \o
       GroupsText(groups, k + 1)

EntryText(e) ==
  "{\"timestamp\":\"" \o e.timestamp \o "\",\"data\":[" \o
  GroupsText(e.data, 1) \o "]}"

RECURSIVE EntriesText(_, _)
EntriesText(entries, k) ==
  IF k > Len(entries) THEN ""
  ELSE (IF k > 1 THEN "," ELSE "") \o EntryText(entries[k]) \o
       EntriesText(entries, k + 1)

OK_200 == "HTTP/1.1 200 OK"
NOT_FOUND_404 == "HTTP/1.1 404 Not Found"

NoResponse == [status |-> "", contentType |-> "", body |-> ""]

\* sendDashboard: the static page, of which the model keeps the first line
sendDashboard ==
  [status |-> OK_200, contentType |-> "text/html",
   body |-> "<!DOCTYPE html>" \o CRLF]

BatteryJsonNoId(b, i) ==
  "{\"id\":" \o printInt(i) \o ",\"raw\":" \o printInt(b.rawValue) \o
  ",\"voltage\":" \o printFloat(b.voltage, 3) \o
  ",\"percentage\":" \o printFloat(b.percentage * V_SCALE, 1) \o
  ",\"healthy\":" \o (IF b.isHealthy THEN "true" ELSE "false") \o "}" \o
  (IF i < NUM_BATTERIES - 1 THEN "," ELSE "")

BatteryJson(b, i) ==
  "{\"id\":" \o printInt(i + 1) \o ",\"raw\":" \o printInt(b.rawValue) \o
  ",\"voltage\":" \o printFloat(b.voltage, 3) \o
  ",\"percentage\":" \o printFloat(b.percentage * V_SCALE, 1) \o
  ",\"healthy\":" \o (IF b.isHealthy THEN "true" ELSE "false") \o "}" \o
  (IF i < NUM_BATTERIES - 1 THEN "," ELSE "")

RECURSIVE BatteriesJson(_, _)
BatteriesJson(bats, i) ==
  IF i < NUM_BATTERIES THEN BatteryJson(bats[i], i) \o BatteriesJson(bats, i + 1)
  ELSE ""

sendCurrentData ==
  [status |-> OK_200, contentType |-> "application/json",
   body |-> "{\"timestamp\":" \o printInt(getUTCTimestamp) \o
            ",\"datetime\":\"" \o getUSLocalTimeString \o
            "\",\"batteries\":[" \o BatteriesJson(batteries, 0) \o "]}" \o CRLF]

\* sendHistoryData with firstLine made static: once a replay has run the
\* flag stays false and the header is no longer skipped
sendHistoryDataStaticFlag ==
  [status |-> OK_200, contentType |-> "application/json",
   body |-> "{\"history\":[" \o CRLF \o
            EntriesText(IF sdOk /\ csv.exists
                        THEN ReplayFrom(csv.text, 0, ~lastHistory.sent)
                        ELSE <<>>, 1) \o "]}" \o CRLF]

sendHistoryData ==
  [status |-> OK_200, contentType |-> "application/json",
   body |-> "{\"history\":[" \o CRLF \o
            EntriesText(Replay(sdOk, csv), 1) \o "]}" \o CRLF]

send404 ==
  [status |-> NOT_FOUND_404, contentType |-> "text/html",
   body |-> "<h1>404 - Not Found</h1>" \o CRLF]

\* The if-chain without its final else: a request that matches no route is
\* sent nothing
RouteWithoutDefault(req) ==
  IF indexOf(req, "GET / ") >= 0 THEN sendDashboard
  ELSE IF indexOf(req, "GET /api/current") >= 0 THEN sendCurrentData
  ELSE IF indexOf(req, "GET /api/history") >= 0 THEN sendHistoryData
  ELSE NoResponse

\* The if-chain of handleWebRequests
Route(req) ==
  IF indexOf(req, "GET / ") >= 0 THEN sendDashboard
  ELSE IF indexOf(req, "GET /api/current") >= 0 THEN sendCurrentData
  ELSE IF indexOf(req, "GET /api/history") >= 0 THEN sendHistoryData
  ELSE send404

TERMINATOR == "\r\n\r\n"

\* The read loop of handleWebRequests on the bytes in flight: it takes them one
\* by one and stops after the first CRLFCRLF.  <<request, bytes left unread>>
Received(req, bytes) ==
  LET t == indexOf(req \o bytes, TERMINATOR)
      all == req \o bytes
  IN  IF t = -1 \/ t + 4 <= Len(req) THEN <<all, "">>
      ELSE <<SubSeq(all, 1, t + 4), SubSeq(all, t + 5, Len(all))>>

-----------------------------------------------------------------------------
(* The state after construction: the globals as their declarations leave them *)

\* No history has been received yet
NoHistory == [file |-> NoFile, card |-> FALSE, body |-> "", sent |-> FALSE]

NoConn == [open |-> FALSE, connected |-> FALSE, pending |-> ""]

ZeroBattery ==
  [voltage |-> 0, percentage |-> 0, rawValue |-> 0, isHealthy |-> FALSE,
   lastUpdate |-> U32(0)]

InitWith(cards, files) ==
  /\ pc = "setup"
  /\ batteries = [i \in Channels |-> ZeroBattery]
  /\ lastLogTime = U32(0)
  /\ lastDisplayUpdate = U32(0)
  /\ currentDisplayBattery = 0
  /\ ledState = FALSE
  /\ lastLedUpdate = U32(0)
  /\ redLed = "LOW"
  /\ greenLed = "LOW"
  /\ lcd = <<"", "">>
  /\ millis = U32(0)
  /\ currentTime = U32(0)
  /\ sdOk \in cards
  /\ csv \in files
  /\ timeSet = FALSE
  /\ epoch = 0
  /\ conn = NoConn
  /\ request = ""
  /\ response = NoResponse
  /\ bytesWritten = 0
  /\ lastHistory = NoHistory
  /\ passes = 0

-----------------------------------------------------------------------------
(* setup() *)

\* The delays of setup() in ms: the SD card branch, the mDNS branch, the
\* retries of initializeNTP and its closing delay, and the final delay.
SetupDelay(card, mdnsOk, attempts) ==
  (IF card THEN 1000 ELSE 3000) + (IF mdnsOk THEN 5000 ELSE 2000) +
  1000 * attempts + 2000 + 1000

\* battery.csv after setup's SD block: the header is written only when the
\* card initialises, the file is absent and it can be created.
SetupFile(card, file, createOk) ==
  IF card /\ ~file.exists /\ createOk
  THEN Appended(file, HeaderLine \o CRLF)
  ELSE file

\* initializeNTP(): the time is set by the first update (0 retries), by one
\* of at most NTP_RETRIES retries one second apart, or not at all.
\* Its retry loop with attempts <= 10 for attempts < 10
RECURSIVE NtpRetryOneMore(_, _, _)
NtpRetryOneMore(set, attempts, answers) ==
  IF ~set /\ attempts <= NTP_RETRIES
  THEN NtpRetryOneMore(answers[attempts + 1], attempts + 1, answers)
  ELSE <<set, attempts>>

\* Its retry loop, while (!isTimeSet() && attempts < 10): a second's delay,
\* an update that the server answers or not, attempts++.
\* <<isTimeSet(), attempts>> when the loop is left
RECURSIVE NtpRetry(_, _, _)
NtpRetry(set, attempts, answers) ==
  IF ~set /\ attempts < NTP_RETRIES
  THEN NtpRetry(answers[attempts + 1], attempts + 1, answers)
  ELSE <<set, attempts>>

\* answers[k]: whether the server answers update number k, the one before the
\* loop being number 0
initializeNTP(answers) == NtpRetry(answers[0], 0, answers)

SyncOutcomes ==
  {initializeNTP(answers) : answers \in [0 .. NTP_RETRIES + 1 -> BOOLEAN]}

Setup(mdns, creates, outcomes, epochs) ==
  /\ pc = "setup"
  /\ \E mdnsOk \in mdns, createOk \in creates, o \in outcomes, e \in epochs :
       /\ o \in SyncOutcomes
       /\ csv' = SetupFile(sdOk, csv, createOk)
       /\ timeSet' = o[1]
       /\ epoch' = IF o[1] THEN e ELSE 0
       /\ millis' = U32(SetupDelay(sdOk, mdnsOk, o[2]))
  /\ batteries' = [i \in Channels |->
                     [voltage |-> 0, percentage |-> 0, rawValue |-> 0,
                      isHealthy |-> TRUE, lastUpdate |-> U32(0)]]
  /\ redLed' = "LOW"
  /\ greenLed' = "LOW"
  /\ lcd' = <<"Battery Monitor", "Ready!          ">>
  /\ pc' = "loop"
  /\ UNCHANGED <<lastHistory, bytesWritten, lastLogTime, lastDisplayUpdate, currentDisplayBattery,
                 ledState, lastLedUpdate, currentTime, sdOk, conn, request,
                 response, passes>>

-----------------------------------------------------------------------------
(* loop(), one step per statement *)

MaxPasses == 3

\* currentTime = millis(); mdns.run(); timeClient.update(): an update sets
\* the time when the server answers and never unsets it.
LoopBegin(syncs, epochs) ==
  /\ pc = "loop"
  /\ passes < MaxPasses
  /\ currentTime' = millis
  /\ \E synced \in syncs, e \in epochs :
       /\ timeSet' = (timeSet \/ synced)
       /\ epoch' = IF ~timeSet /\ synced THEN e ELSE epoch
  /\ pc' = "read"
  /\ UNCHANGED <<lastHistory, bytesWritten, batteries, lastLogTime, lastDisplayUpdate,
                 currentDisplayBattery, ledState, lastLedUpdate, redLed,
                 greenLed, lcd, millis, sdOk, csv, conn, request, response,
                 passes>>

\* readBatteries storing the samples and leaving the derived fields for later
readBatteriesRawOnly(bats, samples, now) ==
  [i \in Channels |-> [bats[i] EXCEPT !.rawValue = samples[i]]]

\* readBatteries(): analogRead gives each channel its sample
readBatteries(bats, samples, now) ==
  [i \in Channels |-> Sampled(samples[i], now)]

ReadBatteries(sampleSet) ==
  /\ pc = "read"
  /\ \E samples \in sampleSet :
       batteries' = readBatteries(batteries, samples, millis)
  /\ pc' = "display"
  /\ UNCHANGED <<lastHistory, bytesWritten, lastLogTime, lastDisplayUpdate, currentDisplayBattery,
                 ledState, lastLedUpdate, redLed, greenLed, lcd, millis,
                 currentTime, sdOk, csv, timeSet, epoch, conn, request,
                 response, passes>>

\* updateDisplay(): the two rows printed for the channel on show
updateDisplay(b, shown) ==
  <<"Bat" \o printInt(shown + 1) \o ": " \o printFloat(b.voltage, 2) \o "V",
    printFloat(b.percentage * V_SCALE, 2) \o "% " \o
    (IF b.isHealthy THEN "OK" ELSE "LOW")>>

DisplayStep ==
  /\ pc = "display"
  /\ IF GE32(Sub32(currentTime, lastDisplayUpdate), DISPLAY_UPDATE)
     THEN /\ lcd' = updateDisplay(batteries[currentDisplayBattery],
                                  currentDisplayBattery)
          /\ currentDisplayBattery' =
               (currentDisplayBattery + 1) % NUM_BATTERIES
          /\ lastDisplayUpdate' = currentTime
     ELSE UNCHANGED <<lcd, currentDisplayBattery, lastDisplayUpdate>>
  /\ pc' = "leds"
  /\ UNCHANGED <<lastHistory, bytesWritten, batteries, lastLogTime, ledState, lastLedUpdate, redLed,
                 greenLed, millis, currentTime, sdOk, csv, timeSet, epoch,
                 conn, request, response, passes>>

anyUnhealthy(bats) == \E i \in Channels : ~bats[i].isHealthy

\* The blink test of updateStatusLEDs
BlinkDueLater(now, last) == GE32(Sub32(now, last), LED_INTERVAL + 1)

BlinkDue(now, last) == GE32(Sub32(now, last), LED_INTERVAL)

\* updateStatusLEDs(currentTime)
UpdateStatusLEDs ==
  /\ pc = "leds"
  /\ IF anyUnhealthy(batteries)
     THEN IF BlinkDue(currentTime, lastLedUpdate)
          THEN /\ ledState' = ~ledState
               /\ redLed' = IF ~ledState THEN "HIGH" ELSE "LOW"
               /\ greenLed' = "LOW"
               /\ lastLedUpdate' = currentTime
          ELSE UNCHANGED <<ledState, redLed, greenLed, lastLedUpdate>>
     ELSE /\ redLed' = "LOW"
          /\ greenLed' = "HIGH"
          /\ UNCHANGED <<ledState, lastLedUpdate>>
  /\ pc' = "log"
  /\ UNCHANGED <<lastHistory, bytesWritten, batteries, lastLogTime, lastDisplayUpdate,
                 currentDisplayBattery, lcd, millis, currentTime, sdOk, csv,
                 timeSet, epoch, conn, request, response, passes>>

\* logBatteryData(): nothing is written when SD.begin or SD.open fails
logBatteryData(card, file, openOk, stamp, bats) ==
  IF card /\ openOk THEN Appended(file, RowLine(stamp, bats) \o CRLF)
  ELSE file

\* The bytes that call wrote
logBytes(card, openOk, stamp, bats) ==
  IF card /\ openOk THEN Len(RowLine(stamp, bats) \o CRLF) ELSE 0

\* The log step with lastLogTime set only by a call that wrote: after a
\* failure the append is tried again in the very next pass
LogStepRetryAtOnce(opens) ==
  /\ pc = "log"
  /\ IF GE32(Sub32(currentTime, lastLogTime), LOG_INTERVAL)
     THEN \E openOk \in opens :
            /\ csv' = logBatteryData(sdOk, csv, openOk, getDateTimeForCSV,
                                     batteries)
            /\ bytesWritten' = logBytes(sdOk, openOk, getDateTimeForCSV,
                                        batteries)
            /\ lastLogTime' = IF sdOk /\ openOk THEN currentTime
                              ELSE lastLogTime
     ELSE /\ bytesWritten' = 0
          /\ UNCHANGED <<csv, lastLogTime>>
  /\ pc' = "web"
  /\ UNCHANGED <<lastHistory, batteries, lastDisplayUpdate,
                 currentDisplayBattery, ledState, lastLedUpdate, redLed,
                 greenLed, lcd, millis, currentTime, sdOk, timeSet, epoch,
                 conn, request, response, passes>>

LogStep(opens) ==
  /\ pc = "log"
  /\ IF GE32(Sub32(currentTime, lastLogTime), LOG_INTERVAL)
     THEN /\ \E openOk \in opens :
               /\ csv' = logBatteryData(sdOk, csv, openOk, getDateTimeForCSV,
                                        batteries)
               /\ bytesWritten' = logBytes(sdOk, openOk, getDateTimeForCSV,
                                           batteries)
          /\ lastLogTime' = currentTime
     ELSE /\ bytesWritten' = 0
          /\ UNCHANGED <<csv, lastLogTime>>
  /\ pc' = "web"
  /\ UNCHANGED <<lastHistory, batteries, lastDisplayUpdate, currentDisplayBattery,
                 ledState, lastLedUpdate, redLed, greenLed, lcd, millis,
                 currentTime, sdOk, timeSet, epoch, conn, request, response,
                 passes>>

\* handleWebRequests(): server.available() gives no client, or a client
\* whose bytes are in flight
WebAccept(clients) ==
  /\ pc = "web"
  /\ \E c \in clients :
       IF c.present
       THEN /\ conn' = [open |-> TRUE, connected |-> TRUE, pending |-> c.bytes]
            /\ pc' = "await"
       ELSE /\ conn' = NoConn
            /\ pc' = "delay"
  /\ request' = ""
  /\ UNCHANGED <<lastHistory, bytesWritten, batteries, lastLogTime, lastDisplayUpdate,
                 currentDisplayBattery, ledState, lastLedUpdate, redLed,
                 greenLed, lcd, millis, currentTime, sdOk, csv, timeSet,
                 epoch, response, passes>>

\* The read loop leaving at the first line end instead of the empty line
WebReadStopsAtLineEnd ==
  /\ pc = "await"
  /\ conn.connected
  /\ conn.pending # ""
  /\ LET r == Received(request, conn.pending)
     IN  /\ request' = r[1]
         /\ conn' = [conn EXCEPT !.pending = r[2]]
         /\ pc' = IF endsWith(r[1], CRLF) THEN "respond" ELSE "await"
  /\ UNCHANGED <<lastHistory, bytesWritten, batteries, lastLogTime,
                 lastDisplayUpdate, currentDisplayBattery, ledState,
                 lastLedUpdate, redLed, greenLed, lcd, millis, currentTime,
                 sdOk, csv, timeSet, epoch, response, passes>>

\* The read loop takes what has arrived and leaves when the request ends
\* with CRLFCRLF.
WebRead ==
  /\ pc = "await"
  /\ conn.connected
  /\ conn.pending # ""
  /\ LET r == Received(request, conn.pending)
     IN  /\ request' = r[1]
         /\ conn' = [conn EXCEPT !.pending = r[2]]
         /\ pc' = IF endsWith(r[1], TERMINATOR) THEN "respond" ELSE "await"
  /\ UNCHANGED <<lastHistory, bytesWritten, batteries, lastLogTime, lastDisplayUpdate,
                 currentDisplayBattery, ledState, lastLedUpdate, redLed,
                 greenLed, lcd, millis, currentTime, sdOk, csv, timeSet,
                 epoch, response, passes>>

\* The client goes away with its header unfinished: client.connected() is
\* false and the read loop ends.
ClientDisconnect ==
  /\ pc = "await"
  /\ conn.connected
  /\ conn.pending = ""
  /\ conn' = [conn EXCEPT !.connected = FALSE]
  /\ pc' = "respond"
  /\ UNCHANGED <<lastHistory, bytesWritten, batteries, lastLogTime, lastDisplayUpdate,
                 currentDisplayBattery, ledState, lastLedUpdate, redLed,
                 greenLed, lcd, millis, currentTime, sdOk, csv, timeSet,
                 epoch, request, response, passes>>

\* The route is taken, the response sent and the client stopped.
WebRespond ==
  /\ pc = "respond"
  /\ response' = Route(request)
  /\ lastHistory' = IF Route(request) = sendHistoryData
                    THEN [sent |-> TRUE, body |-> sendHistoryData.body,
                          card |-> sdOk, file |-> csv]
                    ELSE lastHistory
  /\ conn' = NoConn
  /\ pc' = "delay"
  /\ UNCHANGED <<bytesWritten, batteries, lastLogTime, lastDisplayUpdate,
                 currentDisplayBattery, ledState, lastLedUpdate, redLed,
                 greenLed, lcd, millis, currentTime, sdOk, csv, timeSet,
                 epoch, request, passes>>

\* delay(100): d ms pass before the next pass starts, d >= LOOP_DELAY; the
\* request and the response of this pass are gone.
Delay(steps) ==
  /\ pc = "delay"
  /\ \E d \in steps :
       /\ d >= LOOP_DELAY
       /\ millis' = Add32(millis, d)
       /\ epoch' = IF timeSet THEN epoch + (d \div 1000) ELSE epoch
  /\ request' = ""
  /\ response' = NoResponse
  /\ passes' = passes + 1
  /\ pc' = "loop"
  /\ UNCHANGED <<lastHistory, bytesWritten, batteries, lastLogTime, lastDisplayUpdate,
                 currentDisplayBattery, ledState, lastLedUpdate, redLed,
                 greenLed, lcd, currentTime, sdOk, csv, timeSet, conn>>

\* The read loop spins: the client is connected and has nothing more in
\* flight, w ms go by and nothing else runs.  The time spent in one pass
\* stays below a full turn of the counter (the sum does not carry).
HeaderWait(waits) ==
  /\ pc = "await"
  /\ conn.connected
  /\ conn.pending = ""
  /\ \E w \in waits :
       /\ w > 0
       /\ GE32(Sub32(Add32(millis, w), currentTime), w)
       /\ millis' = Add32(millis, w)
       /\ epoch' = IF timeSet THEN epoch + (w \div 1000) ELSE epoch
  /\ UNCHANGED <<pc, batteries, lastLogTime, lastDisplayUpdate,
                 currentDisplayBattery, ledState, lastLedUpdate, redLed,
                 greenLed, lcd, currentTime, sdOk, csv, timeSet, conn,
                 request, response, bytesWritten, lastHistory, passes>>

\* The card is put in or taken out between two passes.
CardChange ==
  /\ pc = "loop"
  /\ passes < MaxPasses
  /\ sdOk' = ~sdOk
  /\ UNCHANGED <<lastHistory, bytesWritten, pc, batteries, lastLogTime, lastDisplayUpdate,
                 currentDisplayBattery, ledState, lastLedUpdate, redLed,
                 greenLed, lcd, millis, currentTime, csv, timeSet, epoch,
                 conn, request, response, passes>>

-----------------------------------------------------------------------------
(* The environment: samples, clients, elapsed times *)

Uniform(r) == [i \in Channels |-> r]

OneOff(k, r, base) == [i \in Channels |-> IF i = k THEN r ELSE base]

\* Samples on both sides of the health threshold and at the ends of the range
RawPoints == {0, 512, 896, 897, ADC_MAX}

Samples ==
  {Uniform(r) : r \in RawPoints} \cup
  {OneOff(k, 896, 897) : k \in {0, NUM_BATTERIES - 1}}

\* Channel i reads min(ADC_MAX, r + i * stride)
Ramp(r, stride) ==
  [i \in Channels |-> IF r + i * stride > ADC_MAX THEN ADC_MAX ELSE r + i * stride]

WideSamples == {Ramp(r, stride) : r \in 0 .. ADC_MAX, stride \in {1, 100}}

EpochSamples == {1762263296}

Req(method, path, headers) ==
  method \o " " \o path \o " HTTP/1.1" \o CRLF \o headers \o CRLF

NoClient == [bytes |-> "", present |-> FALSE]

Client(bytes) == [bytes |-> bytes, present |-> TRUE]

Methods == {"GET", "POST"}

Paths == {"/", "/api/current", "/api/history", "/unknown", "/api/current2",
          "/api/history/1", "/index.html"}

HeaderSets == {"", "Host: battery-monitor-3572.local" \o CRLF,
               "Referer: GET / index" \o CRLF}

AllClients ==
  {NoClient, Client(""), Client("GET /api/current HTTP/1.1" \o CRLF)} \cup
  {Client(Req(m, p, h)) : m \in Methods, p \in Paths, h \in HeaderSets}

CoreClients ==
  {NoClient, Client(Req("GET", "/api/current", "")), Client(Req("GET", "/", ""))}

HistoryClients ==
  {NoClient, Client(Req("GET", "/api/history", "")),
   Client(Req("GET", "/api/current", ""))}

-----------------------------------------------------------------------------
(* Specifications: the program under different environments *)

\* The whole program: card in or out at power-up, time set at start-up, later
\* or never, dashboard and snapshot clients, passes 100 ms, 2 s or 60 s apart.
Init == InitWith(BOOLEAN, {NoFile})

Next ==
  \/ Setup({TRUE}, {TRUE}, {<<TRUE, 0>>, <<FALSE, NTP_RETRIES>>}, EpochSamples)
  \/ LoopBegin(BOOLEAN, EpochSamples)
  \/ ReadBatteries(Samples)
  \/ DisplayStep
  \/ UpdateStatusLEDs
  \/ LogStep({TRUE})
  \/ WebAccept(CoreClients)
  \/ WebRead
  \/ WebRespond
  \/ Delay({LOOP_DELAY, DISPLAY_UPDATE, LOG_INTERVAL})

Spec == Init /\ [][Next]_vars

\* The conversion on every raw sample
NextConvert ==
  \/ Setup({TRUE}, {TRUE}, {<<FALSE, NTP_RETRIES>>}, EpochSamples)
  \/ LoopBegin({FALSE}, EpochSamples)
  \/ ReadBatteries(WideSamples)

SpecConvert == InitWith({FALSE}, {NoFile}) /\ [][NextConvert]_vars

\* The responder on every kind of request, among them clients that send
\* nothing or leave before the end of their header
NextRoute ==
  \/ Setup({TRUE}, {TRUE}, {<<TRUE, 0>>}, EpochSamples)
  \/ LoopBegin({FALSE}, EpochSamples)
  \/ ReadBatteries({Uniform(897), Uniform(896)})
  \/ DisplayStep
  \/ UpdateStatusLEDs
  \/ LogStep({TRUE})
  \/ WebAccept(AllClients)
  \/ WebRead
  \/ ClientDisconnect
  \/ WebRespond
  \/ Delay({LOG_INTERVAL})

SpecRoute == InitWith({TRUE}, {NoFile}) /\ [][NextRoute]_vars

\* The card and the log: the card is in or out at power-up and may change
\* between passes, creating or opening the file may fail, the time is set at
\* start-up, later or never, and clients ask for the history or the snapshot.
NextStorage ==
  \/ Setup({TRUE}, BOOLEAN, {<<TRUE, 0>>, <<FALSE, NTP_RETRIES>>}, EpochSamples)
  \/ LoopBegin(BOOLEAN, EpochSamples)
  \/ CardChange
  \/ ReadBatteries({Uniform(897), OneOff(NUM_BATTERIES - 1, 896, ADC_MAX)})
  \/ DisplayStep
  \/ UpdateStatusLEDs
  \/ LogStep(BOOLEAN)
  \/ WebAccept(HistoryClients)
  \/ WebRead
  \/ WebRespond
  \/ Delay({LOOP_DELAY, LOG_INTERVAL})

SpecStorage == InitWith(BOOLEAN, {NoFile}) /\ [][NextStorage]_vars

\* Replay of a card that comes with a log already on it: full rows, a row of
\* three fields, a line without a comma and a row cut short, in any order
OldRow ==
  RowLine("2025-11-04T13:34:56Z", readBatteries(<<>>, Uniform(897), U32(0)))

OldLines == {OldRow, "2025-11-04T13:35:56Z,897,10.522", "garbage",
             SubSeq(OldRow, 1, 60)}

FileOf(lines) ==
  [exists |-> TRUE,
   text |-> HeaderLine \o CRLF \o
            (IF Len(lines) >= 1 THEN lines[1] \o CRLF ELSE "") \o
            (IF Len(lines) >= 2 THEN lines[2] \o CRLF ELSE "")]

OldFiles ==
  {FileOf(<<>>)} \cup {FileOf(<<a>>) : a \in OldLines} \cup
  {FileOf(<<a, b>>) : a \in OldLines, b \in OldLines}

NextReplay ==
  \/ Setup({TRUE}, {TRUE}, {<<TRUE, 0>>}, EpochSamples)
  \/ LoopBegin({FALSE}, EpochSamples)
  \/ ReadBatteries({Uniform(897)})
  \/ DisplayStep
  \/ UpdateStatusLEDs
  \/ LogStep({TRUE})
  \/ WebAccept({NoClient, Client(Req("GET", "/api/history", ""))})
  \/ WebRead
  \/ WebRespond
  \/ Delay({LOG_INTERVAL})

SpecReplay == InitWith({TRUE}, OldFiles) /\ [][NextReplay]_vars

\* The card found at setup holds a damaged battery.csv: after the header, up
\* to two lines out of a full row, a row with one triple too many, a line of
\* commas alone, lines with too few fields or no comma, an empty line and a
\* line of blanks; the last line with or without its line end.
LongRow == OldRow \o ",1,2.000,3.0"

CommaRow == ",,,,,,,,,,,,,,,,,,,,,,,,,,,,,,,,,,,,,,,,"

CorruptLines == OldLines \cup {LongRow, CommaRow, "", "  "}

Unterminated(file) ==
  [exists |-> TRUE, text |-> SubSeq(file.text, 1, Len(file.text) - Len(CRLF))]

CorruptFiles ==
  LET whole == {FileOf(<<a>>) : a \in CorruptLines} \cup
               {FileOf(<<a, b>>) : a \in CorruptLines, b \in CorruptLines}
  IN  whole \cup {Unterminated(f) : f \in whole}

SpecCorrupt == InitWith({TRUE}, CorruptFiles) /\ [][NextReplay]_vars

\* The counter's wraparound: in the first pass a client holds the read loop
\* for up to two waits of LongWait ms, after which the next pass starts 300 ms
\* before the counter wraps; the pass after that starts before or after the
\* wrap, short of or past each interval.
LongWait == (W16 \div 2 - 1) * W16 + (W16 - 4700)

NextWrap ==
  \/ Setup({TRUE}, {TRUE}, {<<TRUE, 0>>}, EpochSamples)
  \/ LoopBegin({FALSE}, EpochSamples)
  \/ ReadBatteries({Uniform(896), Uniform(897)})
  \/ DisplayStep
  \/ UpdateStatusLEDs
  \/ LogStep({TRUE})
  \/ WebAccept({NoClient, Client("")})
  \/ HeaderWait({LongWait})
  \/ ClientDisconnect
  \/ WebRespond
  \/ Delay({LOOP_DELAY, 400, LED_INTERVAL, DISPLAY_UPDATE, LOG_INTERVAL})

SpecWrap == InitWith({TRUE}, {NoFile}) /\ [][NextWrap]_vars

\* The header read: clients that send a whole request, one line of it, or
\* nothing, and then keep the connection for a while or leave.  The program
\* takes its steps, bytes in flight arrive, and a client that has sent all
\* it will send without the empty line ends up disconnecting.  There is no
\* card and the time server never answers.
WaitingClients ==
  {NoClient, Client(""), Client("GET /api/current HTTP/1.1" \o CRLF),
   Client(Req("GET", "/api/current", "")), Client(Req("GET", "/", ""))}

NextWait ==
  \/ Setup({TRUE}, {TRUE}, {<<FALSE, NTP_RETRIES>>}, EpochSamples)
  \/ LoopBegin({FALSE}, EpochSamples)
  \/ ReadBatteries({Uniform(896), Uniform(897)})
  \/ DisplayStep
  \/ UpdateStatusLEDs
  \/ LogStep({TRUE})
  \/ WebAccept(WaitingClients)
  \/ WebRead
  \/ HeaderWait({LongWait})
  \/ ClientDisconnect
  \/ WebRespond
  \/ Delay({LOOP_DELAY})

SpecWait ==
  /\ InitWith({FALSE}, {NoFile})
  /\ [][NextWait]_vars
  /\ WF_vars(Setup({TRUE}, {TRUE}, {<<FALSE, NTP_RETRIES>>}, EpochSamples))
  /\ WF_vars(LoopBegin({FALSE}, EpochSamples))
  /\ WF_vars(ReadBatteries({Uniform(896), Uniform(897)}))
  /\ WF_vars(DisplayStep)
  /\ WF_vars(UpdateStatusLEDs)
  /\ WF_vars(LogStep({TRUE}))
  /\ WF_vars(WebAccept(WaitingClients))
  /\ WF_vars(WebRead)
  /\ WF_vars(ClientDisconnect)
  /\ WF_vars(WebRespond)
  /\ WF_vars(Delay({LOOP_DELAY}))

\* Time synchronisation: at start-up the server answers the first update, one
\* of the retries or none; in the loop an update is answered or not
NextNtp ==
  \/ Setup({TRUE}, {TRUE}, SyncOutcomes, EpochSamples)
  \/ LoopBegin(BOOLEAN, EpochSamples)
  \/ ReadBatteries({Uniform(897)})
  \/ DisplayStep
  \/ UpdateStatusLEDs
  \/ LogStep({TRUE})
  \/ WebAccept({NoClient, Client(Req("GET", "/api/current", ""))})
  \/ WebRead
  \/ WebRespond
  \/ Delay({LOOP_DELAY, LOG_INTERVAL})

SpecNtp == InitWith({TRUE}, {NoFile}) /\ [][NextNtp]_vars

\* The status LEDs: healthy and unhealthy passes 100, 400 or 500 ms apart
NextLed ==
  \/ Setup({TRUE}, {TRUE}, {<<FALSE, NTP_RETRIES>>}, EpochSamples)
  \/ LoopBegin({FALSE}, EpochSamples)
  \/ ReadBatteries({Uniform(897), OneOff(0, 0, 897)})
  \/ DisplayStep
  \/ UpdateStatusLEDs
  \/ LogStep({TRUE})
  \/ WebAccept({NoClient})
  \/ Delay({LOOP_DELAY, 400, LED_INTERVAL})

SpecLed == InitWith({FALSE}, {NoFile}) /\ [][NextLed]_vars

\* The clock: the time is set at start-up to an instant in each hour of a
\* day, and snapshots are asked for in passes 100 ms or an hour apart
HourEpochs == {1762263296 + 3600 * k : k \in 0 .. 23}

NextClock ==
  \/ Setup({TRUE}, {TRUE}, {<<TRUE, 0>>}, HourEpochs)
  \/ LoopBegin({FALSE}, HourEpochs)
  \/ ReadBatteries({Uniform(897)})
  \/ DisplayStep
  \/ UpdateStatusLEDs
  \/ LogStep({TRUE})
  \/ WebAccept({NoClient, Client(Req("GET", "/api/current", ""))})
  \/ WebRead
  \/ WebRespond
  \/ Delay({LOOP_DELAY, 3600000})

SpecClock == InitWith({TRUE}, {NoFile}) /\ [][NextClock]_vars

-----------------------------------------------------------------------------
(* Reading the program's outputs *)

\* The k-th smallest element of a set of numbers, k from 1
Nth(S, k) == CHOOSE p \in S : Cardinality({q \in S : q < p}) = k - 1

\* The text of s from 0-based position from up to the first of the marks
\* (to the end when there is none)
UpTo(s, from, marks) ==
  LET stops == UNION {Occurrences(s, m, from) : m \in marks}
  IN  IF stops = {} THEN SubSeq(s, from + 1, Len(s))
      ELSE SubSeq(s, from + 1, Nth(stops, 1))

\* The lines of a text, each without its line end
RECURSIVE LinesFrom(_, _)
LinesFrom(text, pos) ==
  IF pos >= Len(text) THEN <<>>
  ELSE <<UpTo(text, pos, {"\r\n", "\n"})>> \o
       LinesFrom(text, ReadLine(text, pos)[2])

FileLines(file) == IF file.exists THEN LinesFrom(file.text, 0) ELSE <<>>

\* The comma-separated fields of a line
FieldCount(line) == Cardinality(Occurrences(line, ",", 0)) + 1

FIELDS_PER_ROW == 1 + 3 * NUM_BATTERIES

IsDashboard(r) ==
  r.status = "HTTP/1.1 200 OK" /\ r.contentType = "text/html"

IsCurrent(r) ==
  /\ r.status = "HTTP/1.1 200 OK" /\ r.contentType = "application/json"
  /\ indexOf(r.body, "\"batteries\":[") >= 0

IsHistory(r) ==
  /\ r.status = "HTTP/1.1 200 OK" /\ r.contentType = "application/json"
  /\ indexOf(r.body, "{\"history\":[") = 0

IsNotFound(r) ==
  r.status = "HTTP/1.1 404 Not Found" /\ r.contentType = "text/html"

\* The states in which the registry has been refreshed at least once
Refreshed == pc # "setup" /\ (passes > 0 \/ pc \notin {"loop", "read"})

-----------------------------------------------------------------------------
C2_ConversionRangeMonotone ==
  pc = "display" =>
    /\ \A i \in Channels :
         /\ batteries[i].rawValue \in 0 .. 1023
         /\ batteries[i].percentage >= 0 /\ batteries[i].percentage <= 100
         /\ batteries[i].voltage >= 0 /\ batteries[i].voltage <= 12 * V_SCALE
    /\ \A i, j \in Channels :
         batteries[i].rawValue < batteries[j].rawValue =>
           /\ batteries[i].voltage < batteries[j].voltage
           /\ batteries[i].percentage <= batteries[j].percentage

\* A refresh with a sample below the 0 % point, a sample in the sloping part
\* and the full-scale sample
C2_Witness ==
  /\ pc = "display"
  /\ \E i, j, k \in Channels :
       /\ batteries[i].rawValue = 823 /\ batteries[i].percentage = 0
       /\ batteries[j].rawValue = 923 /\ batteries[j].percentage = 32
       /\ batteries[k].rawValue = 1023 /\ batteries[k].voltage = 12 * V_SCALE
       /\ batteries[k].percentage = 77

\* The method and the path of a request's first line
RequestMethod(req) == UpTo(req, 0, {" ", "\r", "\n"})

RequestPath(req) ==
  IF indexOf(req, " ") = -1 THEN ""
  ELSE UpTo(req, indexOf(req, " ") + 1, {" ", "\r", "\n"})

\* The response of a router that compares the method and the whole path
ExactRoute(req) ==
  IF RequestMethod(req) = "GET" /\ RequestPath(req) = "/" THEN sendDashboard
  ELSE IF RequestMethod(req) = "GET" /\ RequestPath(req) = "/api/current"
       THEN sendCurrentData
  ELSE IF RequestMethod(req) = "GET" /\ RequestPath(req) = "/api/history"
       THEN sendHistoryData
  ELSE send404

(* C3: the response is chosen by the request's method and path alone: GET  *)
(* / gives the dashboard, GET /api/current the snapshot, GET /api/history  *)
(* the history, and every other request the 404 page, whatever its path    *)
(* starts with and whatever its header lines hold.                         *)
C3_RoutesOnMethodAndPath ==
  (pc = "delay" /\ response # NoResponse) => response = ExactRoute(request)

(* C4: whenever battery.csv exists, its first line is the column header    *)
(* and every later line has 1 + 3N comma-separated fields.                 *)
C4_HeaderThenFullRows ==
  csv.exists =>
    /\ Len(FileLines(csv)) >= 1
    /\ FileLines(csv)[1] = HeaderLine
    /\ \A k \in 2 .. Len(FileLines(csv)) :
         FieldCount(FileLines(csv)[k]) = FIELDS_PER_ROW

\* Decimal text read back as a number
Digits == {Digit(d) : d \in 0 .. 9}

IsNumber(s) == Len(s) > 0 /\ \A i \in 1 .. Len(s) : CharAt(s, i) \in Digits

DigitValue(c) == CHOOSE d \in 0 .. 9 : Digit(d) = c

RECURSIVE ParseNat(_)
ParseNat(s) ==
  IF Len(s) = 0 THEN 0
  ELSE 10 * ParseNat(SubSeq(s, 1, Len(s) - 1)) + DigitValue(CharAt(s, Len(s)))

\* s is <digits>.<exactly n digits>
IsDecimal(s, n) ==
  /\ indexOf(s, ".") >= 1
  /\ Len(s) - indexOf(s, ".") - 1 = n
  /\ IsNumber(SubSeq(s, 1, indexOf(s, ".")))
  /\ IsNumber(SubSeq(s, indexOf(s, ".") + 2, Len(s)))

\* The value of such a text in units of 10^-n
DecimalValue(s, n) ==
  ParseNat(SubSeq(s, 1, indexOf(s, "."))) * Pow10(n) +
  ParseNat(SubSeq(s, indexOf(s, ".") + 2, Len(s)))

\* A replayed group holds channel b: the same raw sample, the voltage to
\* within half a millivolt, the percentage to the tenth
GroupHolds(g, b) ==
  /\ IsNumber(g.raw) /\ ParseNat(g.raw) = b.rawValue
  /\ IsDecimal(g.voltage, 3)
  /\ DecimalValue(g.voltage, 3) * (V_SCALE \div 1000) - b.voltage <= (V_SCALE \div 2000)
  /\ b.voltage - DecimalValue(g.voltage, 3) * (V_SCALE \div 1000) <= (V_SCALE \div 2000)
  /\ IsDecimal(g.percentage, 1)
  /\ DecimalValue(g.percentage, 1) = 10 * b.percentage

EntryHolds(e, stamp, bats) ==
  /\ e.timestamp = stamp
  /\ Len(e.data) = NUM_BATTERIES
  /\ \A k \in 1 .. NUM_BATTERIES : GroupHolds(e.data[k], bats[k - 1])

LastOf(seq) == seq[Len(seq)]

(* C5: the row logBatteryData appends, read back by sendHistoryData's line *)
(* parser, gives the timestamp field it was written with and, in channel   *)
(* order, each channel's raw sample, its voltage to 3 decimals and its     *)
(* percentage to 1 decimal, the last triple (no trailing comma) included;  *)
(* when the row is not the file's first line, it is the last entry of the  *)
(* replay.                                                                 *)
C5_RowReplaysToRegistry ==
  (pc = "web" /\ bytesWritten > 0) =>
    LET lines == FileLines(csv)
        e == ParseLine(trim(LastOf(lines)))
    IN  /\ EntryHolds(e, getDateTimeForCSV, batteries)
        /\ Len(lines) > 1 => LastOf(Replay(TRUE, csv)) = e

\* A row has just been appended below the header with the time set and the
\* last channel at 896 (10.510 V, 20.0 %).
C5_Witness ==
  /\ pc = "web"
  /\ bytesWritten > 0
  /\ timeSet
  /\ Len(FileLines(csv)) >= 2
  /\ FileLines(csv)[1] = HeaderLine
  /\ endsWith(csv.text, ",1023,12.000,77.0,896,10.510,20.0\r\n")
  /\ batteries[NUM_BATTERIES - 1].rawValue = 896

\* The entries of a replay that skips every line without 1 + 3N fields
FullRow(line) == FieldCount(line) = FIELDS_PER_ROW

RECURSIVE ParseAll(_)
ParseAll(lines) ==
  IF lines = <<>> THEN <<>>
  ELSE <<ParseLine(trim(Head(lines)))>> \o ParseAll(Tail(lines))

HistoryBody(entries) ==
  "{\"history\":[" \o "\r\n" \o EntriesText(entries, 1) \o "]}" \o "\r\n"

(* C6: in a replay a line with fewer than 1 + 3N fields, a line without a  *)
(* comma among them, gives no history entry, and every full row after it   *)
(* still gives its entry.                                                  *)
C6_MalformedLinesSkipped ==
  (pc = "delay" /\ IsHistory(response)) =>
    response.body =
      HistoryBody(ParseAll(SelectSeq(Tail(FileLines(csv)), FullRow)))

(* C7: across updateStatusLEDs calls, while a channel is unhealthy ledState *)
(* (the red LED) toggles exactly in the calls made at least 500 ms after   *)
(* the previous toggle, lastLedUpdate then taking the call's time; while   *)
(* all channels are healthy nothing toggles, red is off and green is on,   *)
(* and ledState and lastLedUpdate keep their values, so that the next      *)
(* unhealthy call goes on from the earlier toggle.                         *)
C7_BlinkEvery500ms ==
  [][pc = "leds" =>
       IF \E i \in Channels : ~batteries[i].isHealthy
       THEN /\ (ledState' # ledState) <=>
                 GE32(Sub32(currentTime, lastLedUpdate), LED_INTERVAL)
            /\ lastLedUpdate' =
                 (IF ledState' # ledState THEN currentTime ELSE lastLedUpdate)
            /\ (ledState' # ledState) =>
                 /\ redLed' = (IF ledState' THEN "HIGH" ELSE "LOW")
                 /\ greenLed' = "LOW"
       ELSE /\ ledState' = ledState
            /\ lastLedUpdate' = lastLedUpdate
            /\ redLed' = "LOW"
            /\ greenLed' = "HIGH"]_vars

\* The red LED has gone on and, 500 ms later, off again, after a healthy pass
\* in between or not
C7_Witness ==
  /\ pc = "log"
  /\ anyUnhealthy(batteries)
  /\ ~ledState
  /\ redLed = "LOW"
  /\ lastLedUpdate = currentTime
  /\ passes >= 1

\* A line of the file that is a record, not the header
IsRecord(line) == line # HeaderLine

(* C8: the history sent for GET /api/history has one entry for each record *)
(* appended to the log, in the order written, and none for the header; for *)
(* a log of the header alone, or a file that cannot be opened, it is the   *)
(* empty array in a 200 JSON body.                                         *)
C8_HistoryListsEveryRecord ==
  (pc = "delay" /\ IsHistory(response)) =>
    response.body =
      HistoryBody(IF sdOk /\ csv.exists
                  THEN ParseAll(SelectSeq(FileLines(csv), IsRecord))
                  ELSE <<>>)

\* The text of obj after "key": up to the next comma or closing brace
JsonValue(obj, key) ==
  UpTo(obj, indexOf(obj, "\"" \o key \o "\":") + Len(key) + 3, {",", "}"})

\* The k-th object of the batteries array of a snapshot body
BatteryObject(body, k) ==
  UpTo(body, Nth(Occurrences(body, "{\"id\":", 0), k), {"}"})

(* C9: the body sent for GET /api/current has a batteries array of exactly *)
(* N = 10 objects, ids 1..N in channel order, each with the raw sample,    *)
(* voltage, percentage and health flag the registry holds for its channel. *)
C9_CurrentListsRegistry ==
  (pc = "delay" /\ IsCurrent(response)) =>
    /\ Cardinality(Occurrences(response.body, "{\"id\":", 0)) = NUM_BATTERIES
    /\ \A k \in 1 .. NUM_BATTERIES :
         LET obj == BatteryObject(response.body, k)
             b   == batteries[k - 1]
         IN  /\ IsNumber(JsonValue(obj, "id"))
             /\ ParseNat(JsonValue(obj, "id")) = k
             /\ GroupHolds([raw        |-> JsonValue(obj, "raw"),
                            voltage    |-> JsonValue(obj, "voltage"),
                            percentage |-> JsonValue(obj, "percentage")], b)
             /\ JsonValue(obj, "healthy") =
                  (IF b.isHealthy THEN "true" ELSE "false")

\* A snapshot of ten healthy channels has been sent
C9_Witness ==
  /\ pc = "delay"
  /\ IsCurrent(response)
  /\ \A i \in Channels : batteries[i].isHealthy
  /\ Cardinality(Occurrences(response.body, "\"healthy\":true", 0)) =
       NUM_BATTERIES

\* What an unsynchronized clock gives, the readable formats giving sentinel
UnsyncedGives(sentinel) ==
  ~timeSet =>
    /\ getUTCTimeString = sentinel
    /\ getLocalTimeString = sentinel
    /\ getUSLocalTimeString = sentinel
    /\ getDateTimeForCSV = "1970-01-01T00:00:00Z"
    /\ getUTCTimestamp = 0
    /\ (pc = "web" /\ bytesWritten > 0) =>
         LET row == LastOf(FileLines(csv))
         IN  /\ FieldCount(row) = FIELDS_PER_ROW
             /\ UpTo(row, 0, {","}) = "1970-01-01T00:00:00Z"
    /\ (pc = "delay" /\ IsCurrent(response)) =>
         indexOf(response.body,
                 "{\"timestamp\":0,\"datetime\":\"" \o sentinel \o "\",") = 0

(* C10: while the time client has not synchronized, getUTCTimeString,      *)
(* getLocalTimeString and getUSLocalTimeString give "Time not synced",     *)
(* getDateTimeForCSV gives 1970-01-01T00:00:00Z and getUTCTimestamp gives  *)
(* 0; a row appended then starts with that timestamp and has 1 + 3N        *)
(* fields, and a snapshot sent then carries timestamp 0 and the sentinel.  *)
C10_UnsyncedSentinels == UnsyncedGives("Time not synced")

\* A row has been appended with the clock never set
C10_Witness ==
  /\ ~timeSet
  /\ pc = "web"
  /\ bytesWritten > 0
  /\ indexOf(LastOf(FileLines(csv)), "1970-01-01T00:00:00Z,") = 0

(* C10 as first stated: the sentinel of the three readable formats is      *)
(* "time not synced".                                                      *)
C10_AsStated == UnsyncedGives("time not synced")

\* The datetime of a snapshot body, MM/DD/YYYY H:MM:SS AM|PM
DatetimeOf(body) ==
  UpTo(body, indexOf(body, "\"datetime\":\"") + 12, {"\""})

\* Its hour text (between the blank and the first colon) and its suffix
HourTextOf(datetime) ==
  UpTo(datetime, indexOf(datetime, " ") + 1, {":"})

SuffixOf(datetime) == SubSeq(datetime, Len(datetime) - 1, Len(datetime))

\* The local hour 0..23 of an instant, from the seconds of its day
LocalHour(utc) == ((utc + TIMEZONE_OFFSET) % 86400) \div 3600

(* C11: for every local hour h in 0..23 the datetime getUSLocalTimeString  *)
(* gives shows an hour in 1..12 without a leading zero: 12 for h = 0 and   *)
(* h = 12, h for 1..11 and h - 12 for 13..23, with AM exactly when h < 12. *)
C11_TwelveHourClock ==
  (pc = "delay" /\ IsCurrent(response) /\ timeSet) =>
    LET dt == DatetimeOf(response.body)
        h  == LocalHour(epoch)
    IN  /\ HourTextOf(dt) =
             printInt(IF h % 12 = 0 THEN 12 ELSE h % 12)
        /\ SuffixOf(dt) = (IF h < 12 THEN "AM" ELSE "PM")
        /\ Len(dt) = Len("MM/DD/YYYY ") + Len(HourTextOf(dt)) + Len(":MM:SS AM")

\* A snapshot sent at noon local time shows 12 PM
C11_Witness ==
  /\ pc = "delay"
  /\ IsCurrent(response)
  /\ timeSet
  /\ LocalHour(epoch) = 12
  /\ indexOf(response.body, " 12:") >= 0
  /\ indexOf(response.body, " PM\"") >= 0

Fields(line) ==
  LET commas == Occurrences(line, ",", 0)
      n      == Cardinality(commas)
      from(k) == IF k = 1 THEN 0 ELSE Nth(commas, k - 1) + 1
      to(k)   == IF k = n + 1 THEN Len(line) ELSE Nth(commas, k)
  IN  [k \in 1 .. n + 1 |-> SubSeq(line, from(k) + 1, to(k))]

\* A forward-only reading of a line: group k is made of the three fields
\* after the timestamp and the groups before it, and no group is made of
\* fields the line does not have
ForwardOnly(line, groups) ==
  LET f == Fields(line)
  IN  /\ 3 * Len(groups) <= Len(f) - 1
      /\ \A k \in 1 .. Len(groups) :
           groups[k] = [raw        |-> f[3 * k - 1],
                        voltage    |-> f[3 * k],
                        percentage |-> f[3 * k + 1]]

(* C13: whatever the number of fields of a data line, the groups that      *)
(* sendHistoryData emits for it are its fields after the timestamp taken   *)
(* three by three in order: no field is read twice, no value spans two     *)
(* fields and there are no more groups than triples of fields.             *)
C13_ParserMovesForward ==
  (pc = "delay" /\ IsHistory(response)) =>
    \A k \in 2 .. Len(FileLines(csv)) :
      LET line == trim(FileLines(csv)[k])
      IN  Len(line) > 0 => ForwardOnly(line, ParseLine(line).data)

\* How many of the four fixed shapes a response has
ShapesOf(r) ==
  Cardinality({k \in 1 .. 4 :
                 \/ k = 1 /\ IsDashboard(r)
                 \/ k = 2 /\ IsCurrent(r)
                 \/ k = 3 /\ IsHistory(r)
                 \/ k = 4 /\ IsNotFound(r)})

\* The positions of handleWebRequests with a client in hand
Serving == {"await", "respond"}

(* C14: a connection accepted by handleWebRequests, once its header read   *)
(* ends, is sent exactly one of the four fixed responses and is closed in  *)
(* the same step; nothing of it (client, request text) is left when the    *)
(* next pass starts, and a pass accepts at most one client: after serving  *)
(* one, the only way on is the delay that ends the pass.                   *)
C14_OneResponseThenClose ==
  /\ [](/\ pc \in Serving => conn.open /\ response = NoResponse
        /\ pc \notin Serving => conn = NoConn
        /\ pc \notin Serving \cup {"delay"} =>
             request = "" /\ response = NoResponse)
  /\ [][/\ pc = "respond" =>
             /\ ShapesOf(response') = 1
             /\ conn' = NoConn
             /\ pc' = "delay"
        /\ (conn'.open /\ ~conn.open) => pc = "web"
        /\ (pc \in Serving \cup {"delay"} /\ pc' \notin Serving \cup {"delay"}) =>
             pc' = "loop" /\ passes' = passes + 1]_vars

\* In a second pass a client that left without sending a byte has been sent
\* the 404 and closed
C14_Witness ==
  /\ pc = "delay"
  /\ passes >= 1
  /\ request = ""
  /\ IsNotFound(response)
  /\ ShapesOf(response) = 1
  /\ conn = NoConn

\* The positions of a pass at which the registry is read: updateDisplay,
\* updateStatusLEDs, logBatteryData, handleWebRequests and up to the delay
Readers == {"display", "leds", "log", "web", "await", "respond", "delay"}

(* C15: in every pass readBatteries has completed before the display, the  *)
(* LEDs, the log append and the HTTP responder run: wherever one of them   *)
(* reads the registry, every channel was sampled in this pass and its      *)
(* voltage, percentage and health flag are the ones derived from the raw   *)
(* sample it holds.                                                        *)
C15_ReadersSeeFreshRegistry ==
  pc \in Readers =>
    \A i \in Channels :
      /\ batteries[i].lastUpdate = currentTime
      /\ batteries[i].voltage = VoltageOf(batteries[i].rawValue)
      /\ batteries[i].percentage = PercentageOf(batteries[i].voltage)
      /\ batteries[i].isHealthy = (batteries[i].percentage > 20)

\* In the third pass the responder reads a registry whose last channel has
\* just dropped to 896 while the first reads 897
C15_Witness ==
  /\ pc = "respond"
  /\ passes = 2
  /\ batteries[0].rawValue = 897
  /\ batteries[NUM_BATTERIES - 1].rawValue = 896
  /\ ~batteries[NUM_BATTERIES - 1].isHealthy
  /\ batteries[0].isHealthy

\* The milliseconds from instant last to instant now on the 2^32 ms dial,
\* counted up to ElapsedCap: the whole turns of the low half, then the rest
ElapsedCap == 3 * W16

Elapsed(now, last) ==
  LET turns == (now[1] - last[1]) % W16
      rest  == now[2] - last[2]
  IN  IF turns <= 3 /\ turns * W16 + rest >= 0 /\ turns * W16 + rest < ElapsedCap
      THEN turns * W16 + rest
      ELSE ElapsedCap

(* C16: in a pass the log append is attempted exactly when at least 60000  *)
(* ms have passed since the previous attempt, and the display is refreshed *)
(* exactly when at least 2000 ms have passed since the previous refresh;   *)
(* neither step touches the other's time, so two attempts are at least     *)
(* 60 s apart and two refreshes at least 2 s apart.                        *)
C16_IndependentThresholds ==
  [][/\ pc = "display" =>
          /\ (lastDisplayUpdate' # lastDisplayUpdate) <=>
               Elapsed(currentTime, lastDisplayUpdate) >= DISPLAY_UPDATE
          /\ (lastDisplayUpdate' # lastDisplayUpdate) =>
               /\ lastDisplayUpdate' = currentTime
               /\ currentDisplayBattery' =
                    (currentDisplayBattery + 1) % NUM_BATTERIES
          /\ (lastDisplayUpdate' = lastDisplayUpdate) =>
               lcd' = lcd /\ currentDisplayBattery' = currentDisplayBattery
          /\ lastLogTime' = lastLogTime
     /\ pc = "log" =>
          /\ (lastLogTime' # lastLogTime) <=>
               Elapsed(currentTime, lastLogTime) >= LOG_INTERVAL
          /\ (lastLogTime' # lastLogTime) => lastLogTime' = currentTime
          /\ (lastLogTime' = lastLogTime) => csv' = csv /\ bytesWritten' = 0
          /\ lastDisplayUpdate' = lastDisplayUpdate]_vars

\* A pass 2 s after one that both logged and refreshed: the display has been
\* refreshed again, the log has not been touched
C16_Witness ==
  /\ pc = "web"
  /\ passes = 2
  /\ lastDisplayUpdate = currentTime
  /\ lastLogTime # U32(0)
  /\ Elapsed(currentTime, lastLogTime) = DISPLAY_UPDATE

\* Instant a lies before instant b on the counter's face
Before32(a, b) == a[1] < b[1] \/ (a[1] = b[1] /\ a[2] < b[2])

(* C17: the counter having wrapped since a threshold last fired (the pass  *)
(* starts at a smaller counter value than the firing), the display, LED    *)
(* and log steps still fire exactly when the time gone by since, taken     *)
(* modulo 2^32, has reached 2000, 500 and 60000 ms: not earlier, and not   *)
(* only once the counter has caught up with the old value.                 *)
C17_ThresholdsAcrossWrap ==
  [][/\ (pc = "display" /\ Before32(currentTime, lastDisplayUpdate)) =>
          /\ (lastDisplayUpdate' = currentTime) <=>
               Elapsed(currentTime, lastDisplayUpdate) >= DISPLAY_UPDATE
          /\ lastDisplayUpdate' \in {currentTime, lastDisplayUpdate}
     /\ (pc = "leds" /\ Before32(currentTime, lastLedUpdate)
           /\ anyUnhealthy(batteries)) =>
          /\ (lastLedUpdate' = currentTime /\ ledState' # ledState) <=>
               Elapsed(currentTime, lastLedUpdate) >= LED_INTERVAL
          /\ lastLedUpdate' \in {currentTime, lastLedUpdate}
     /\ (pc = "log" /\ Before32(currentTime, lastLogTime)) =>
          /\ (lastLogTime' = currentTime) <=>
               Elapsed(currentTime, lastLogTime) >= LOG_INTERVAL
          /\ lastLogTime' \in {currentTime, lastLogTime}]_vars

\* 500 ms after a pass that fired all three 300 ms before the wrap: the LED
\* has toggled, the display and the log wait
C17_Witness ==
  /\ pc = "web"
  /\ currentTime = U32(LED_INTERVAL - 300)
  /\ lastLedUpdate = currentTime
  /\ Before32(currentTime, lastDisplayUpdate)
  /\ Before32(currentTime, lastLogTime)
  /\ Elapsed(currentTime, lastDisplayUpdate) = LED_INTERVAL
  /\ Elapsed(currentTime, lastLogTime) = LED_INTERVAL

(* C18: at a scheduled append with the card not initialising, or with the *)
(* file not opening, logBatteryData writes nothing: the file and the       *)
(* registry are as before; the pass goes on to the HTTP responder, and     *)
(* lastLogTime takes the pass's time, so that the next attempt comes with  *)
(* the next log cycle and not before.                                      *)
C18_FailedAppendSkipped ==
  [][pc = "log" =>
       /\ pc' = "web"
       /\ batteries' = batteries
       /\ IF Elapsed(currentTime, lastLogTime) >= LOG_INTERVAL
          THEN /\ lastLogTime' = currentTime
               /\ ~sdOk => csv' = csv /\ bytesWritten' = 0
               /\ bytesWritten' = 0 <=> csv' = csv
          ELSE csv' = csv /\ lastLogTime' = lastLogTime]_vars

\* Two log cycles have come: the first append failed and left the file with
\* its header alone, the second has just written the first row
C18_Witness ==
  /\ pc = "web"
  /\ passes = 2
  /\ Elapsed(currentTime, U32(0)) >= 2 * LOG_INTERVAL
  /\ bytesWritten > 0
  /\ csv.text = HeaderLine \o CRLF \o RowLine(getDateTimeForCSV, batteries)
                  \o CRLF

(* C19: the header read of handleWebRequests has no timeout: it is left   *)
(* exactly when the request ends with CRLFCRLF or the client is no longer  *)
(* connected, and time going by does not end it; while it lasts nothing    *)
(* is sampled, shown, blinked, logged, answered or accepted; and with      *)
(* clients that all end up sending the empty line or disconnecting, every  *)
(* header read ends, every pass ends and sampling comes round again, up to *)
(* the last pass modelled.                                                 *)
C19_HeaderReadBlocks ==
  /\ [][pc = "await" =>
          /\ pc' = "respond" <=>
               (endsWith(request', TERMINATOR) \/ ~conn'.connected)
          /\ pc' \in {"await", "respond"}
          /\ conn'.open
          /\ UNCHANGED <<batteries, lastLogTime, lastDisplayUpdate,
                         currentDisplayBattery, ledState, lastLedUpdate,
                         redLed, greenLed, lcd, currentTime, csv, response,
                         bytesWritten, passes>>]_vars
  /\ (pc = "await") ~> (pc = "delay")
  /\ (pc = "read") ~> (pc = "loop")
  /\ <>(pc = "loop" /\ passes = MaxPasses)

\* A client sent one line, kept the connection for a long while and left:
\* the read loop has ended on the disconnect, the registry still as sampled
\* at the start of the pass
C19_Witness ==
  /\ pc = "respond"
  /\ ~conn.connected
  /\ request = "GET /api/current HTTP/1.1" \o CRLF
  /\ millis = Add32(currentTime, LongWait)
  /\ \A i \in Channels : batteries[i].lastUpdate = currentTime

(* C20: initializeNTP ends after at most 10 retries one second apart,     *)
(* whether the server answers or not: setup is over after its fixed        *)
(* delays and k seconds of retries, k <= 10, with k = 10 when the time is  *)
(* still not set, and the loop is entered all the same; and an update in   *)
(* the loop that gets no answer leaves a set time set, the clock as it     *)
(* was.                                                                    *)
C20_BoundedSyncRetry ==
  [][/\ pc = "setup" =>
          /\ pc' = "loop"
          /\ \E k \in 0 .. NTP_RETRIES :
               /\ millis' = U32(SetupDelay(sdOk, TRUE, k))
               /\ ~timeSet' => k = NTP_RETRIES
     /\ timeSet => timeSet' /\ (pc = "loop" => epoch' = epoch)]_vars

\* After ten retries without an answer the loop runs: in its second pass a
\* snapshot has been sent with the sentinel for the time
C20_Witness ==
  /\ pc = "delay"
  /\ passes >= 1
  /\ ~timeSet
  /\ IsCurrent(response)
  /\ indexOf(response.body, "\"timestamp\":0,") >= 0
  /\ GE32(currentTime, SetupDelay(sdOk, TRUE, NTP_RETRIES))

(* C21: the LED outputs agree with the indicator state: after every       *)
(* updateStatusLEDs call with a channel unhealthy the green LED is off and *)
(* the red LED is on exactly when ledState is true; after every call with  *)
(* all channels healthy green is on and red is off; whatever the order and *)
(* the timing of healthy and unhealthy passes.                             *)
C21_LedsFollowIndicator ==
  pc = "log" =>
    IF anyUnhealthy(batteries)
    THEN greenLed = "LOW" /\ redLed = (IF ledState THEN "HIGH" ELSE "LOW")
    ELSE greenLed = "HIGH" /\ redLed = "LOW"

\* The texts of the entries of a history body, in order: each from its
\* opening {"timestamp":" up to the next entry or the end of the body
EntryTexts(body) ==
  LET starts == Occurrences(body, "{\"timestamp\":\"", 0)
      n      == Cardinality(starts)
  IN  [k \in 1 .. n |->
         SubSeq(body, Nth(starts, k) + 1,
                IF k = n THEN Len(body) ELSE Nth(starts, k + 1))]

\* The groups in the text of one entry
GroupsIn(entry) == Cardinality(Occurrences(entry, "{\"raw\":", 0))

\* The lines of the file after the first that are not empty once trimmed
DataLines(file) ==
  SelectSeq(Tail(FileLines(file)), LAMBDA l : Len(trim(l)) > 0)

(* C22: the replay ends on any file content: for a battery.csv with full   *)
(* rows, rows with too many or too few fields, lines without a comma and   *)
(* empty lines, sendHistoryData sends the whole body down to its closing   *)
(* line, with one entry for each non-empty line after the first (each line *)
(* read once) and at most NUM_BATTERIES groups in each entry, and the pass *)
(* goes on to its delay.                                                   *)
C22_ReplayEnds ==
  (pc = "delay" /\ IsHistory(response)) =>
    LET entries == EntryTexts(response.body)
    IN  /\ endsWith(response.body, "]}" \o CRLF)
        /\ Len(entries) =
             (IF sdOk /\ csv.exists /\ Len(FileLines(csv)) > 0
              THEN Len(DataLines(csv)) ELSE 0)
        /\ \A k \in 1 .. Len(entries) : GroupsIn(entries[k]) <= NUM_BATTERIES

\* A history sent for a file whose lines after the header include a row with
\* too many fields and an empty line: one entry of NUM_BATTERIES groups
C22_Witness ==
  /\ pc = "delay" /\ IsHistory(response)
  /\ \E k \in 2 .. Len(FileLines(csv)) :
       FieldCount(FileLines(csv)[k]) > FIELDS_PER_ROW
  /\ \E k \in 2 .. Len(FileLines(csv)) : FileLines(csv)[k] = ""
  /\ Len(EntryTexts(response.body)) = 1
  /\ GroupsIn(EntryTexts(response.body)[1]) = NUM_BATTERIES

=============================================================================
